SPECIFICATION BothSpec
CONSTANTS
    None = None
    u1 = u1  u2 = u2  c1 = c1  c2 = c2  n1 = n1  n2 = n2
    Users = {u1, u2}
    Clients = {c1, c2}
    UserOf <- MCUserOf
    Names = {n1, n2}
    NamesOf <- MCNamesOf
    Ports = {1, 2}
    Limited = {u1}
    MaxKey <- MCMaxKey
    Owners = {1, 2}
    MaxBytes = 2
INVARIANTS SessionsHaveTheKey RoutedToOwnerOrLeft RecordsAddUp

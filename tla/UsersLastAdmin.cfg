SPECIFICATION Spec
CONSTANTS
    s1 = s1
    s2 = s2
    s3 = s3
    Users = {1, 2}
    Sessions = {s1, s2}
    Operations = {"remove", "add_provisional", "change_password"}
SYMMETRY Symmetry
INVARIANT AdministratorRemains

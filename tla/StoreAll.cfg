CONSTANTS
    n1 = n1  n2 = n2  n3 = n3
    Nodes = {n1, n2, n3}
    Stores = {"nats", "s3", "webdav", "sftp"}
    Exclusive = TRUE
    MaxBackups = 3
    MaxFailures = 2
SPECIFICATION Spec
SYMMETRY NodeSymmetry
INVARIANTS TypeOK WholeUnlessDisturbed NotOlder

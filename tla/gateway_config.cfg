SPECIFICATION ConfigSpec
CONSTANTS
    Width = 2
    Hosts <- MCHosts
    TrustedLists <- MCTrusted
    AllowedLists <- MCAllowed
    Shapes <- MCShapes
    Namespaces = {"n1", "n2"}
    SecretNames = {"s", "t"}
    ExposureNames = {"e1", "e2"}
    Addresses = {"ip1", "ip2"}
    Documents <- MCDocuments
INVARIANTS ResolvesOriginator AdmitsListed Wired

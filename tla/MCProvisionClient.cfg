SPECIFICATION ClientSpec
CONSTANTS
    r1 = r1
    r2 = r2
    Runs = {r1, r2}
    Hosts = {"unit", "other"}
    Honest = {"unit"}
    NoPin = NoPin
    EmptyPin = EmptyPin
    NoHost = NoHost
SYMMETRY RunSymmetry
 
PROPERTIES  ProvisionedHasClock

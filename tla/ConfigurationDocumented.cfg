SPECIFICATION ConfigSpec
CONSTANTS
    Sources <- MCSources
    Remotes <- MCRemotes
    DynamicOf <- MCDynamicOf
    VendorPriority = 1
    UrlOf <- MCUrlOf
    ItemsOf <- MCItemsOf
    Unopenable = {"bad.log"}
    SizeLimit = 1073741824
    DurationLimit = 1000000
    Unrepresentable <- MCUnrepresentable
    Nothing = "nothing"
    MaxUpdates = 4
INVARIANTS
    DefaultsAsDocumented
CHECK_DEADLOCK FALSE

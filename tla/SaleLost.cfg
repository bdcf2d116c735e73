SPECIFICATION CheckoutSpec
CONSTANTS
    Items = {i1, i2}
    MaxRefs = 2
PROPERTIES
    NoSaleLost
CHECK_DEADLOCK FALSE

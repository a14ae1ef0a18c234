SPECIFICATION HelperSpec
CONSTANTS
    Processes = {p1, p2}
PROPERTIES
    UnavailableIsBlocked

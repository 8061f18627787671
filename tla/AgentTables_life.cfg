CONSTANTS
    psu = psu
    image = image
    manager = manager
    health = health
    text = text
    Texts = {text}
    Empty = text
    Priorities = {}
    Strings <- MCStrings
    Foreign = {}
    Inventory = {psu}
    Software = {image}
    Ifaces <- MCIfaces
    Fields = {"Present", "Functional", "Purpose"}
    Services = {manager, health}
    Service <- MCService
    Mute = {}
    Faults = {"session", "mapper", "getall"}
    MaxInbox = 2
SPECIFICATION Spec
INVARIANTS
    TypeOK
    InStep
    EndHidesNothing
    Accurate
PROPERTY
    MibSpec

CONSTANTS
    psu = psu
    image = image
    manager = manager
    text = text
    Texts = {text}
    Empty = text
    Priorities = {}
    Strings <- MCStrings
    Foreign = {}
    Inventory = {psu}
    Software = {image}
    Ifaces <- MCIfaces
    Fields = {"Present", "Purpose"}
    Services = {manager}
    Service <- MCService
    Mute = {}
    Faults = {"mapper", "getall"}
    MaxInbox = 2
    StartLimit = 2
    MaxEnds = 1
SPECIFICATION UnitSpec
PROPERTY
    Serves

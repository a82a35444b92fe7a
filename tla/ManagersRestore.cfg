SPECIFICATION Spec
CONSTANTS
    Users = {ann, bob}
    Handlers = {h1}
    Limits = {2}
PROPERTIES
    AddedIsManager

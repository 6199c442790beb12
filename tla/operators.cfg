SPECIFICATION MCSpec
CONSTANTS
    Contents = {"absent", "empty", "text", "number", "zero"}
    Bodies <- MCBodies
    Headers = {"", "h", "h8"}
    CorrIds = {"", "c", "c8"}
    ContentTypes = {"", "t", "t8"}
    NotUtf8 = {"h8", "c8", "t8"}
    Texts = {"", " ", "s", "1.0", "S"}
    Docs <- MCDocs
    SchemaVersionCurrent = 1
    ViewKinds = {"table", "custom", "form"}
    FormFieldKinds = {"string", "select"}
    BodySizes = {0, 3, 4, 5, 6, 7}
    MaxActionBodyBytes = 4
    Half = 8
    Times <- MCTimes
    Stamps <- MCStamps
    Tolerances <- MCTolerances
    MaxParts = 3
INVARIANTS
    SameIdWhenOneField
    NeverMissed
    FramingTransparent
    ServedIsUsable
    ActionBodyWhole
    SignedInWindow
CHECK_DEADLOCK FALSE

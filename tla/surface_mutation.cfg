SPECIFICATION MCSpec
CONSTANTS
    Contents = {"absent"}
    Bodies <- MCBodies
    Headers = {"", "h"}
    CorrIds = {"", "c"}
    ContentTypes = {"", "t"}
    NotUtf8 = {}
    Texts = {"", " ", "s", "1.0", "S"}
    Docs <- MCDocs
    SchemaVersionCurrent = 1
    ViewKinds = {"table", "custom", "form"}
    FormFieldKinds = {"string", "select"}
    BodySizes = {0, 3, 4, 5, 6, 7}
    MaxActionBodyBytes = 4
    Half = 8
    Times <- MCTimes
    Stamps <- MCStamps
    Tolerances <- MCTolerances
    MaxParts = 0
INVARIANTS
    MutationIgnored
CHECK_DEADLOCK FALSE

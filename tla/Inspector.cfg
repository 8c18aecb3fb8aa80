CONSTANTS
    ServiceNames = {a, b}
    MaxContainers = 2
    MaxUnderWay = 2
SPECIFICATION InspectorSpec
INVARIANTS LabelsComing
PROPERTIES DetailsSettle LabelsSettle InspectsStop

SPECIFICATION Spec
CONSTANTS
    Resolutions = {75, 100, 150}
    DataTypes = {2, 3}
    WidthUnits = 1318
    HeightUnits = 40
    Requests <- MCRequests
INVARIANTS ItemIsScannable OffersAreHonest SelectionIsKept

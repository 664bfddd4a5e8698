SPECIFICATION DeckSpec
CONSTANTS
    Sources <- MCSources
    Phrasings <- MCPhrasings
    Catalog <- MCCatalog
    Off = Off
    Failed = Failed
    Missing = Missing
    MaxDeckRuns = 2
INVARIANTS
    ChartsHaveTheirFigure
CHECK_DEADLOCK FALSE

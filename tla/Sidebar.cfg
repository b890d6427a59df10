SPECIFICATION SidebarSpec
CONSTANTS
    p1 = p1
    p2 = p2
    p3 = p3
    Pane = {p1, p2, p3}
    RepoOf <- MCRepoOf
    NameRank <- MCNameRank
    LabelRank <- MCLabelRank
    Summarised = {p1, p2}
    ReportedStatus = {"Blocked", "Idle"}
    TextLines = {0, 2}
    ShortRows = 6
    TerminalRows = {4, 8}
    None = None
INVARIANTS
    TypeOK
    SelectionOnScreen
    SelectedLineInView
PROPERTIES
    SelectionStaysNear
    

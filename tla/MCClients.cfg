SPECIFICATION ClientsSpec
CONSTANTS
    None = None
    Plans <- PluginPlans
    QtMixes <- QtPages
    GtkMixes <- GtkPages
    MaxProcs = 3
INVARIANTS
    ViewsForget
    TonesReachTheirCall
    SavedChoiceStands
    ViewsSettleCurrent
    PluginsSound
CHECK_DEADLOCK FALSE

CONSTANTS
    panel = panel
    macro = macro
    kPage = kPage
    kFree = kFree
    kHook = kHook
    rPage = rPage
    rMacro = rMacro
    effect = effect
    inner = inner
    direct = direct
    wrong = wrong
    hook = hook
    served = served
    NoCall = NoCall
    NoModule = NoModule
    NoResolver = NoResolver
    Calls = {effect, inner, wrong, hook, served}
    Modules = {panel, macro}
    Keys = {kPage, kFree, kHook}
    WebTriggers = {kHook}
    Resolvers = {rPage, rMacro}
    Request <- MCRequest
    Parent <- MCParent
    Route <- MCRoute
    Owner <- MCOwner
    MaxResets = 1
    Quiet = 1
    Deadline = 1
SPECIFICATION Spec
INVARIANTS
    InvocationSeesItself
    PagesSeeTheirOwn
PROPERTIES
    DrainsBeforeStopping
    StopEnds
CHECK_DEADLOCK FALSE

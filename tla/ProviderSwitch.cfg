\* Two webhook calls, of one event or of two, cross the changes of two administrators.
SPECIFICATION Spec
CONSTANTS
    web = web
    feishu = feishu
    wecom = wecom
    dingtalk = dingtalk
    h1 = h1
    h2 = h2
    a1 = a1
    a2 = a2
    None = None
    e1 = e1
    e2 = e2
    Providers = {web, feishu, wecom, dingtalk}
    Registered = {web, feishu, wecom, dingtalk}
    Configured = {web, feishu, wecom}
    Initial = feishu
    Events = {e1, e2}
    Admins = {a1, a2}
    Hooks = {h1, h2}
SYMMETRY Symmetry
CHECK_DEADLOCK FALSE
INVARIANTS
    OrphansExplained
    DeliveredOnce
    MissingCardsExplained

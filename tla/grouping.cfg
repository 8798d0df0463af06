CONSTANTS
    none = none
    chrome = chrome
    chromeId = chromeId
    childId = childId
    chromeIcon = chromeIcon
    python = python
    scriptId = scriptId
    serviceId = serviceId
    worker = worker
    Pids = {1, 2}
    Images <- MCImages
    Generic = {python}
    Icons <- MCIcons
    None = none
    MaxChanges = 2
    TopCount = 2
    Crowded = TRUE
    ThreadName = worker
VIEW MCView
SPECIFICATION Spec
INVARIANTS
    TypeOK
    IdentityIsOwn
    GroupIsItsMembers
PROPERTY CacheFollowsTick

CONSTANTS
    none = none
    chrome = chrome
    chromeId = chromeId
    childId = childId
    chromeIcon = chromeIcon
    python = python
    scriptId = scriptId
    serviceId = serviceId
    worker = worker
    Pids = {1, 2}
    Images <- MCAllImages
    Generic = {python}
    Icons <- MCIcons
    None = none
    MaxChanges = 0
    TopCount = 2
    Crowded = FALSE
    ThreadName = worker
SPECIFICATION Spec
PROPERTY LabelIsSteady

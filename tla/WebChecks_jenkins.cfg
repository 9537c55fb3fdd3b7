SPECIFICATION WebSpec
CONSTANTS
    WebDebounces = {0, 2}
    RecentLimit = 2
    MaxResults = 2
    Null = Null
PROPERTIES
    JenkinsFails

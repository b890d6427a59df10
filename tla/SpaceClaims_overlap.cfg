SPECIFICATION Spec
CONSTANTS
    i1 = i1
    i2 = i2
    i3 = i3
    s1 = s1
    s2 = s2
    api = api
    web = web
    herdash = herdash
    fleet = fleet
    Instance = {i1, i2}
    Space = {s1, s2}
    Home <- MCHomeApart
    UserLabel = {api, web}
    HerdashName = {herdash}
    Days = {{"overlap"}}
    None = None
PROPERTIES
    CleanExitRestores

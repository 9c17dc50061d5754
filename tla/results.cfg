SPECIFICATION ResultsSpec
CONSTANTS
    Calls = {c1, c2}
    Tools = {"web_search", "map_site", "fetch_url", "crawl_site", "answer",
             "extract_structured", "deep_research_estimate", "job_status"}
    NoTool = NoTool
    Lengths = {0, 1, 5}
    MaxPages = 2
    MaxUrls = 2
    PageCaps = {3}
    MaxTokens = 4
    MinPageTokens = 2
    Reserve = 15
    ImageMode = "resource"
    MaxItems = 2
    Ttl = 1
    LastTick = 2
INVARIANTS
    ResultsTypeOK
    CutTextIsReadable
    TextsFit
CHECK_DEADLOCK FALSE

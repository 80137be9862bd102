SPECIFICATION StoresSpec
CONSTANTS
    Writers = {w1, w2}
    Jobs <- MCJobs
    Selectors <- MCSelectors
    IndexPath <- MCIndexPath
    Versions = {"v1", "v2"}
    Contents = {"x", "{}", "{ref}"}
    Decoded <- MCDecoded
    Blank = ""
    Data <- MCData
    Refs = {"r", "r.json"}
    ContentPath <- MCContentPath
    InfoPath <- MCInfoPath
    Stopwords = {20}
    URLs = {29}
    Asks <- MCAsks
SYMMETRY WriterSymmetry
CONSTRAINT OneStore
INVARIANTS
    InfoHasContent
    GetAgreesWithBatch
    TopMatches
PROPERTIES
    ReportTrue

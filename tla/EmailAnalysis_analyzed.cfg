SPECIFICATION Spec
CONSTANTS
    Quotes <- AllQuotes
    NoText = ""
    Occurs <- Places
    Values <- Claims
    Within <- Contents
    Links = {"url"}
    Answers <- Replies
    LaterAnswers <- LaterReplies
    MaxAnalyses = 2
    Fallbacks <- Prepared
    Libraries <- Shelves
INVARIANT TypeOK StoredIsBacked TaskShowsItsFacts AdviceIsBacked
PROPERTY VerdictIsExact NothingIsDropped StoresWhatHolds AnalysisIsKept
CHECK_DEADLOCK FALSE

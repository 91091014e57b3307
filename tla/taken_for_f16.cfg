SPECIFICATION Spec
CONSTANTS
    Group = 2
    N = 3
    Elems = 40
    NormBytes = 8
    Reserve = 100
    FreeVram <- McFreeVram
    Bases <- McBases
    AdapterLists <- McAdapterLists
    HeadLen = 24
    KeyLen = 40
    NameLen = 30
    InfoLen = 28
    FixedKeys = 2
    Align = 32
    LongMax = 1100
    Letters <- McLetters
    Digits = {"1"}
    Spaces = {" "}
    Newlines = {"n"}
    Blank = " "
    Quote = "'"
    OneEnding = {"s"}
    TwoEndings <- McTwoEndings
    Merges <- McMerges
    Vocab <- McVocab
    Specials <- McSpecials
    Bos <- McBos
    MaxCtx = 8
    Depth = 3
    Temperature = 2
    Penalty = 2
    TopK = 2
    TopP = 60
    Jobs <- McJobs
    TokKeys = 2
    Cuts <- McCuts
    Requests <- McRequests
    MaxTokens = 3
    MaxSeq = 7
    Ids <- McIds
    Eos <- McEos
    LogitSets <- McLogitSets
INVARIANT
    TakenForF16
CHECK_DEADLOCK FALSE

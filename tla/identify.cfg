SPECIFICATION Spec
CONSTANTS
    Files <- MCFiles
    BufSize = 5
    Replies <- MCReplies
    Answers <- MCAnswers
    Served <- MCServed
INVARIANTS
    TypeOK
    SignatureExact
    FetchesWhatWasNamed

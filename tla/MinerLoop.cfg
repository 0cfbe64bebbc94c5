\* Three jobs that can be won, two at their first nonce and one at its second,
\* and a last one that cannot; three refreshes with other causes, mining off among them.
\* The state with the last job published and mined for ever is not a deadlock:
\* the miner goes on.
CONSTANTS
    MaxJobs = 4
    MaxOthers = 3
    MaxNonce = 1
    WinningNonce <- WinningAtZeroAndOne
SPECIFICATION Spec
PROPERTIES
    FoundIsFresh
    WaitEnds

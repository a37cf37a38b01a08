CONSTANTS
    Cpu = {c1, c2}
    Space = {s1, s2}
    Page = {p1}
    NoCpu = NoCpu
    Every = Every
    All = All
SPECIFICATION FairSpec
INVARIANTS MailboxIsHolders NoStaleAfterReturn
PROPERTIES WaitEnds

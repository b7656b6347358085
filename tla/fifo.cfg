SPECIFICATION FairSpec
CONSTANTS
    Readers = {r1, r2}
    Writers = {w1, w2}
    None = None
    MaxKills = 1
    Capacity = 2
INVARIANTS TypeOK GarbageExplained MissedByRemoval
PROPERTIES MailboxSpec EnoughReaders

CONSTANTS
    Thread = {p, q}
    Walker = {p}
    Server = {s1, s2, s3}
    s1 = s1
    s2 = s2
    s3 = s3
    Virtual = {0, 1}
    Size = 7
    Hash <- MeetAt4
    MaxRep = 4
    Nobody = Nobody
SPECIFICATION FairSpec
INVARIANTS RingExact WalkFindsClosest
PROPERTIES WalkEnds

SPECIFICATION FairSpec
CONSTANTS
    Accounts = {alice, bob}
    EnvAdmins = {alice}
    EnvMembers = {}
    Threads = {t1, t2}
    Sids = {s1}
    Nobody = Nobody
    Idle = 1
    Ttl = 1
    LongTtl = 2
INVARIANT TypeOK
PROPERTY EndedStaysEnded
PROPERTY OutStaysOut
PROPERTY LostAccessRunsOut

CONSTANTS
    Conn = {1, 2}
    Task = {11, 12}
    t1 = t1  t2 = t2
    a1 = a1  a2 = a2
    Tab = {t1, t2}
    Addr = {a1, a2}
    Home = a1
    NoOne = NoOne
    Budgets <- MCEither
    Overlap = FALSE
    c1 = c1  c2 = c2
    Cfg = {c1, c2}
    ApiCfg = {c1}
    Svc = {"api", "http"}
    Mqtt = TRUE
    Dials = TRUE
    MaxJob = 1  MaxLine = 5  QueueMax = 4
SPECIFICATION DashboardSpec
INVARIANTS DashboardTypeOK SlotIsTheLiveSession NeverSupersedesItself OpenLinkIsTrue ClaimIsAnchored FollowerIsTold StaleClientIsCutOff
PROPERTIES CommitSparesSession  LinkHeals AnnounceOutweighs GateNeverDips StateIsNoticed FollowerIsReleased
CHECK_DEADLOCK FALSE

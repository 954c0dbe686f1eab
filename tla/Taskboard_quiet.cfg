SPECIFICATION MCSpec
CONSTANTS
    e1 = e1
    e2 = e2
    e3 = e3
    r1 = r1
    r2 = r2
    r3 = r3
    r4 = r4
    r5 = r5
    Req = {r1, r2, r3, r4, r5}
    Webhook <- MCWebhook
    Ids = {e1, e2, e3}
    Loads <- MCQuiet
    MaxOutage = 2
    MaxSlide = 1
    MaxDelete = 1
INVARIANT AnsweredRunIsFinal
CHECK_DEADLOCK FALSE

SPECIFICATION FairSpec
CONSTANTS
    Accounts = {1, 2}
    Providers = {1, 2}
    InitTypes = {"aliyun_cdn", "tencent_cdn", "huawei_cdn"}
    Logins = {1, 2}
    Assigned = {}
    Requests = {1, 2}
    MaxUpsets = 2
INVARIANT AnswerIsTrue
PROPERTIES
    BindEnds
    UnbindEnds
CHECK_DEADLOCK FALSE

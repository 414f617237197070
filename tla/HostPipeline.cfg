SPECIFICATION HostSpec
CONSTANTS
    Releases = {1, 2, 3}
    Html = {"index", "about"}
    FilesOf <- Manifests
    Signed = {1, 2}
    BadConf <- RefusedConf
    Types = {"deploy_html", "deploy_full"}
    MaxTasks = 4
INVARIANTS
    ServesGenuine
    SuccessIsComplete
CHECK_DEADLOCK FALSE

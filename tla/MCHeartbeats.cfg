CONSTANTS
    Storage = {s1}
    heartrate = 3
    heartbeat_timeout = 10
    heartbeat_check_interval = 1
    storage_request_timeout = 3
    Clients = 2
SPECIFICATION FairSpec
INVARIANTS FreshWhenUsed LostOnlyBehindBacklog 
PROPERTIES Recognised

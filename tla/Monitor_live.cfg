SPECIFICATION FairSpec
CONSTANTS
    UsedDrivers = {"oracledb", "ibm_db"}
    MaxEdits = 2
    Minutes = 2
    QueryErrors = {"sql"}
PROPERTIES Reconnects UptimeIfHandled  RoleFollowed

SPECIFICATION FairSpec
CONSTANTS
    UsedDrivers = {"psycopg2"}
    MaxEdits = 1
    Minutes = 1
    QueryErrors = {"sql"}
PROPERTY UptimeGoesOn

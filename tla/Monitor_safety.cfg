SPECIFICATION Spec
CONSTANTS
    UsedDrivers = {"psycopg2", "oracledb", "pytds", "pymysql"}
    MaxEdits = 2
    Minutes = 2
    QueryErrors = {"sql", "value"}
INVARIANTS TypeOK ConfigNeverStale StaleOnlyIfSlipped BlindBounded
 

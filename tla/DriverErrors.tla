---------------------------- MODULE DriverErrors ----------------------------
(* The drivererrors/ modules: what db_errorcode makes of an exception, and   *)
(* which codes db_error_needs_new_session takes for the loss of the session. *)
(* An exception is one of a few kinds, told apart by what the modules look   *)
(* at: its class, how many args it has, the attributes it has.               *)
EXTENDS Naturals

Drivers == {"cx_Oracle", "oracledb", "psycopg2", "pymysql", "pytds", "hdbcli", "ibm_db"}

(* Exceptions of the driver itself. *)
Own == {"lost", "sql", "login"}
(* Python's: reset has (errno, text), os has (2, text), value has (text), and*)
(* option, configparser's for an option that is missing, (option, section).  *)
Builtin == {"reset", "os", "value", "option"}
Exceptions == Own \cup Builtin

Raises == "raises"      \* db_errorcode itself ends with an exception

(* cx_Oracle: "_error, = excep.args" and _error.code, for any class *)
CxOracleCode(e) ==
    CASE e = "lost" -> "3113" [] e = "sql" -> "942" [] e = "login" -> "1017"
      [] OTHER -> Raises

(* oracledb: as cx_Oracle, but one argument without a code gives the class;  *)
(* two arguments still do not fit "_error, = excep.args"                     *)
OracledbCode(e) ==
    CASE e = "lost" -> "3113" [] e = "sql" -> "942" [] e = "login" -> "1017"
      [] e = "value" -> "ValueError" [] OTHER -> Raises

(* psycopg2: excep.pgcode; empty for errors outside a statement *)
Psycopg2Code(e) ==
    CASE e \in {"lost", "login"} -> "1001" [] e = "sql" -> "42P01"
      [] OTHER -> Raises

(* pymysql: args[0] and args[1]; only an AttributeError is caught *)
PymysqlCode(e) ==
    CASE e = "lost" -> "2013" [] e = "sql" -> "1064" [] e = "login" -> "1045"
      [] e = "reset" -> "104" [] e = "os" -> "2"
      [] e = "option" -> "minutes" [] OTHER -> Raises

(* pytds: by the name of the class, then msg_no *)
PytdsCode(e) ==
    CASE e = "lost" -> "ClosedConnectionError" [] e = "login" -> "LoginError"
      [] e = "sql" -> "208" [] e = "reset" -> "ConnectionResetError"
      [] e = "os" -> "FileNotFoundError" [] OTHER -> Raises

(* hdbcli: excep.errorcode *)
HdbcliCode(e) ==
    CASE e = "lost" -> "-10807" [] e = "sql" -> "259" [] e = "login" -> "10"
      [] OTHER -> Raises

(* ibm_db: driver.stmt_error(), whatever the exception is *)
IbmDbCode(e) ==
    CASE e = "reset" -> "ConnectionResetError" [] e = "sql" -> "42704"
      [] OTHER -> "08001"

db_errorcode(d, e) ==
    CASE d = "cx_Oracle" -> CxOracleCode(e) [] d = "oracledb" -> OracledbCode(e)
      [] d = "psycopg2" -> Psycopg2Code(e)  [] d = "pymysql" -> PymysqlCode(e)
      [] d = "pytds" -> PytdsCode(e)        [] d = "hdbcli" -> HdbcliCode(e)
      [] d = "ibm_db" -> IbmDbCode(e)

(* The codes that justify a new session; those of cx_Oracle and oracledb.    *)
OracleCodes ==
    {"28", "1000", "1012", "1041", "3113", "3114", "3117", "3135", "12153", "55524", "15000"}
Psycopg2Codes == {"1001", "57P01"}

(* Any substring of "2013". *)
PymysqlCodes == {"2013", "201", "013", "20", "01", "13", "2", "0", "1", "3"}

(* pytds; hdbcli compares with the same name, which it never returns.        *)
ResetCodes == {"ConnectionResetError"}

(* ibm_db compares numbers with a code that is always a text. *)
IbmDbCodes == {}

NewSessionCodes(d) ==
    CASE d \in {"cx_Oracle", "oracledb"} -> OracleCodes
      [] d = "psycopg2" -> Psycopg2Codes
      [] d = "pymysql" -> PymysqlCodes
      [] d \in {"pytds", "hdbcli"} -> ResetCodes
      [] d = "ibm_db" -> IbmDbCodes

db_error_needs_new_session(d, code) == code \in NewSessionCodes(d)

(* current_role of the dbconnections module each driver is used with: oracle *)
(* answers 'notknown' on a lost session, postgres and mysql let the error    *)
(* out; mysql ends up with "primary" whatever it read, the rest do not ask.  *)
KnowsRole(d) == d \in {"cx_Oracle", "oracledb", "psycopg2"}
RoleFails(d) == d \in {"psycopg2", "pymysql"}
RoleHides(d) == d \in {"cx_Oracle", "oracledb"}
=============================================================================

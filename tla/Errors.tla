------------------------------- MODULE Errors -------------------------------
(***************************************************************************)
(* qsox::Error: a Code, plus the OS error number when the code is Other.   *)
(* OS error numbers are their errno names; a win32 build sees the same     *)
(* names with a WSA prefix, which the model drops.  Every call of the      *)
(* library returns a NetResult: Ok, or Err holding an Error.               *)
(***************************************************************************)
EXTENDS TLC

\* osCode() of an Error that was not built from an OS error
NoOs == "0"

Error(code)    == [code |-> code, osCode |-> NoOs]
fromOs(osCode) == [code |-> "Other", osCode |-> osCode]

Ok     == [ok |-> TRUE,  err |-> Error("Success")]
Err(e) == [ok |-> FALSE, err |-> e]

\* The OS errors that the unix build gives a Code of their own.
UnixCode ==
  [ETIMEDOUT    |-> "TimedOut",              ECONNREFUSED |-> "ConnectionRefused",
   EBADF        |-> "InvalidArgument",       EINVAL       |-> "InvalidArgument",
   ENOTSOCK     |-> "NotASocket",            EACCES       |-> "AccessDenied",
   EFAULT       |-> "InvalidPointerAddress", EWOULDBLOCK  |-> "WouldBlock",
   EINPROGRESS  |-> "InProgress",            EALREADY     |-> "InProgress",
   EMSGSIZE     |-> "MessageTooLong",        EADDRINUSE   |-> "AddressInUse",
   ENETDOWN     |-> "NetworkDown",           ECONNABORTED |-> "ConnectionAborted",
   ECONNRESET   |-> "ConnectionReset",       EISCONN      |-> "IsConnected",
   ENOTCONN     |-> "NotConnected"]

\* The win32 build names two more.
Win32Code == [e \in DOMAIN UnixCode \cup {"ENETUNREACH", "ESHUTDOWN"} |->
  CASE e = "ENETUNREACH" -> "NetworkDown"
    [] e = "ESHUTDOWN"   -> "AlreadyShutdown"
    [] OTHER             -> UnixCode[e]]

CodeOf(platform) == IF platform = "win32" THEN Win32Code ELSE UnixCode

\* Error::lastOsError(): the thread's last OS error as an Error.
lastOsError(platform, errno) ==
  IF errno \in DOMAIN CodeOf(platform) THEN Error(CodeOf(platform)[errno])
                                       ELSE fromOs(errno)

=============================================================================

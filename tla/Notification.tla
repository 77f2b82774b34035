---------------------------- MODULE Notification ----------------------------
(***************************************************************************)
(* src/notification.rs: what the crate makes of the bytes of a record that *)
(* the kernel flagged MSG_NOTIFICATION.  A raw record is the fields the    *)
(* parser looks at and the number of bytes that were read; a field beyond  *)
(* that length is not there to be read.                                    *)
(***************************************************************************)
EXTENDS Naturals

\* Notification types and association change states (sys.rs).
SCTP_SN_TYPE_BASE   == 32768
SCTP_ASSOC_CHANGE   == SCTP_SN_TYPE_BASE + 1
SCTP_SEND_FAILED    == SCTP_SN_TYPE_BASE + 4
SCTP_SHUTDOWN_EVENT == SCTP_SN_TYPE_BASE + 5

SCTP_COMM_UP         == 0
SCTP_COMM_LOST       == 1
SCTP_RESTART         == 2
SCTP_SHUTDOWN_COMP   == 3
SCTP_CANT_STR_ASSOC  == 4

\* Sizes of the structures the parser casts to.
HeaderSize      == 8
AssocChangeSize == 20
ShutdownSize    == 12

RawNotification == [sn_type : Nat, state : Nat, assoc : Nat, len : Nat]

Raw(type, state, assoc, len) ==
  [sn_type |-> type, state |-> state, assoc |-> assoc, len |-> len]

\* AssocChangeState::from(u16): the last arm keeps the number.
AssocChangeState(v) ==
  CASE v = SCTP_COMM_UP        -> "CommUp"
    [] v = SCTP_COMM_LOST      -> "CommLost"
    [] v = SCTP_RESTART        -> "Restart"
    [] v = SCTP_SHUTDOWN_COMP  -> "ShutdownComp"
    [] v = SCTP_CANT_STR_ASSOC -> "CantStrAssoc"
    [] OTHER                   -> "Unknown"

Unknown(type) == [kind |-> "Unknown", state |-> "", assoc |-> 0, sn_type |-> type]

\* parse_notification.
ParseNotification(raw) ==
  CASE raw.len < HeaderSize -> Unknown(0)
    [] raw.len >= AssocChangeSize /\ raw.sn_type = SCTP_ASSOC_CHANGE ->
         [kind |-> "AssocChange", state |-> AssocChangeState(raw.state),
          assoc |-> raw.assoc, sn_type |-> raw.sn_type]
    [] raw.len >= ShutdownSize /\ raw.sn_type = SCTP_SHUTDOWN_EVENT ->
         [kind |-> "Shutdown", state |-> "", assoc |-> raw.assoc, sn_type |-> raw.sn_type]
    [] raw.len >= HeaderSize /\ raw.sn_type = SCTP_SEND_FAILED ->
         [kind |-> "SendFailed", state |-> "",
          assoc |-> IF raw.len >= 12 THEN raw.assoc ELSE 0, sn_type |-> raw.sn_type]
    [] OTHER -> Unknown(raw.sn_type)

\* Mutant: the peer's SHUTDOWN is taken for the end.
EndsOnShutdown(n) ==
  \/ n.kind = "Shutdown"
  \/ n.kind = "AssocChange" /\ n.state \in {"CommLost", "ShutdownComp", "CantStrAssoc"}

\* association.rs, ends(): the notification says the association is over.
Ends(n) ==
  n.kind = "AssocChange" /\ n.state \in {"CommLost", "ShutdownComp", "CantStrAssoc"}

=============================================================================

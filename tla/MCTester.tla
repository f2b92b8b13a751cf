------------------------------ MODULE MCTester ------------------------------
(* Memos whose callback is dropped, for the packet's own account, for the    *)
(* tester on behalf of whoever it is, and for a failure.                     *)
EXTENDS TesterCallbacks

Ask(data, addr) == [data |-> data, addr |-> addr]

MCReceiveMemos == {Ask("NftReceived", Invalid), Ask("NftReceived", Unset),
                   Ask("NftReceived", "tester"), Ask("FailCallback", "tester")}
MCAckMemos == {Ask("NftSent", Unset), Ask("NftSent", "tester"),
               Ask("FailCallback", "tester")}
=============================================================================

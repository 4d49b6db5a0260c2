------------------------------- MODULE MCBanking -------------------------------
(* Small instances of Banking: accounts a and b, and a closed account c.     *)
EXTENDS Banking

Deposit(id, acc, n) == [id |-> id, kind |-> "deposit", account |-> acc, to |-> acc, amount |-> n]
Withdraw(id, acc, n) == [id |-> id, kind |-> "withdraw", account |-> acc, to |-> acc, amount |-> n]
Transfer(id, x, y, n) == [id |-> id, kind |-> "transfer", account |-> x, to |-> y, amount |-> n]

Order == <<"a", "b", "c">>

\* One account that was never opened, one with money, one that was closed.
Openings == [x \in {"a", "b", "c"} |->
                CASE x = "a" -> << >>
                  [] x = "b" -> <<Opened, Deposited(1, <<"cash">>)>>
                  [] x = "c" -> <<Opened, Closed>>]

\* A deposit and a withdrawal, each attempted twice, that race for account b,
\* whose money suffices for one withdrawal; and a deposit into the closed account.
LockedCommands == {Deposit("d1", "b", 1), Withdraw("w1", "b", 1), Deposit("d2", "c", 1)}

\* A transfer, attempted twice, that races a deposit into its target.
TransferCommands == {Transfer("t1", "b", "a", 1), Deposit("d1", "a", 1)}

RaceAndTransfer == {LockedCommands, TransferCommands}
OneTransfer == {{Transfer("t1", "b", "a", 1)}}
================================================================================

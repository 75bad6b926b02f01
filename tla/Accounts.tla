------------------------------ MODULE Accounts ------------------------------
(***************************************************************************)
(* dao.c over the tables of schema.sqlite.sql, used by several processes:  *)
(* each script of the server opens the database for itself.  A statement   *)
(* of SQL is one step of the database; it may fail, when another process   *)
(* holds the database.                                                     *)
(***************************************************************************)
EXTENDS Integers, FiniteSets, FiniteSetsExt

CONSTANTS Process, Name, Password, Ip,
          Befriended,   \* the rows tbl_friend is made with: pairs of memberids
          MaxId,        \* bound: memberids given out
          MaxConns      \* bound: connections the processes open

ASSUME DaoAssumption == MaxId \in Nat /\ MaxConns \in Nat /\ Befriended \subseteq Nat \X Nat

VARIABLES member,   \* tbl_member: a function from the memberids in use
          lastid,   \* the last memberid an autoincrement has given out
          conn,     \* of each process: opened, the number of connections so far, of which
                    \* the last is open or not; kept: a statement of it is not finalized;
                    \* left: those that sqlite3_close has refused
          login,    \* the calls of dao_login between their two statements
          answer,   \* what the last call of each process returned and found
          who,      \* history: the number of the account each memberid belongs to
          accounts, \* history: how many accounts there have been
          spoilt    \* history: of each process, the connections on which a call has returned
                    \* an error or deleted a member

daoVars == <<member, lastid, conn, login, answer, who, accounts, spoilt>>
table == <<member, lastid, who, accounts>>

Idle == [name |-> "", ip |-> "", found |-> FALSE]
Ids(name) == {id \in DOMAIN member : member[id].name = name}

\* The database is there, with accounts of before.
DaoInit ==
  /\ accounts \in 0 .. MaxId /\ lastid = accounts
  /\ member \in [1 .. accounts -> [name : Name, password : Password, ip : Ip]]
  /\ \A i, j \in DOMAIN member : member[i].name = member[j].name => i = j
  /\ who = [id \in DOMAIN member |-> id]
  /\ conn = [p \in Process |-> [opened |-> 0, open |-> FALSE, kept |-> FALSE, left |-> {}]]
  /\ login = [p \in Process |-> Idle]
  /\ answer = [p \in Process |-> [rc |-> 0, account |-> 0, friends |-> {}]]
  /\ spoilt = [p \in Process |-> {}]

\* tbl_friend is what it was made with: no function of dao.c adds to it or takes from it.
friend == {f \in Befriended : f[1] <= MaxId /\ f[2] <= MaxId}

Ready(p) == conn[p].open /\ login[p] = Idle
Answers(p, rc, account, friends) ==
  answer' = [answer EXCEPT ![p] = [rc |-> rc, account |-> account, friends |-> friends]]
Marked(p) == [spoilt EXCEPT ![p] = @ \cup {conn[p].opened}]
Returns(p, rc) ==
  /\ Answers(p, rc, 0, {})
  /\ spoilt' = IF rc = 0 THEN spoilt ELSE Marked(p)
Finalized(p) == UNCHANGED conn
Unfinalized(p) == conn' = [conn EXCEPT ![p].kept = TRUE]
Busy(p) == \E q \in Process \ {p} : conn[q].open

\* A call that cannot prepare its statement has none to keep; one that cannot step it
\* returns without finalizing it.
FailsPrepare(p) == Returns(p, -1) /\ Finalized(p) /\ UNCHANGED table
FailsStep(p) == Returns(p, -1) /\ Unfinalized(p) /\ UNCHANGED table
FailsBusy(p) == Busy(p) /\ (FailsPrepare(p) \/ FailsStep(p))

Opened == MapThenSumSet(LAMBDA q : conn[q].opened, Process)
dao_init(p) ==
  /\ ~ conn[p].open /\ login[p] = Idle
  /\ Opened < MaxConns
  /\ conn' = [conn EXCEPT ![p].opened = @ + 1, ![p].open = TRUE]
  /\ UNCHANGED <<table, login, answer, spoilt>>

\* sqlite3_close refuses a connection with statements, and nobody looks.
dao_deinit(p) ==
  /\ Ready(p)
  /\ conn' = [conn EXCEPT ![p].open = FALSE, ![p].kept = FALSE,
                          ![p].left = IF conn[p].kept THEN @ \cup {conn[p].opened} ELSE @]
  /\ UNCHANGED <<table, login, answer, spoilt>>

\* The first statement of dao_login; that its step fails is taken for no row.
dao_login(p, name, password, ip) ==
  /\ Ready(p)
  /\ \/ /\ \E found \in BOOLEAN :
             /\ found => \E id \in Ids(name) : member[id].password = password
             /\ ~ found => Busy(p) \/ ~ \E id \in Ids(name) : member[id].password = password
             /\ login' = [login EXCEPT ![p] = [name |-> name, ip |-> ip, found |-> found]]
        /\ UNCHANGED <<table, conn, answer, spoilt>>
     \/ Busy(p) /\ FailsPrepare(p) /\ UNCHANGED login

WithIp(name, ip) ==
  [id \in DOMAIN member |-> IF member[id].name = name THEN [member[id] EXCEPT !.ip = ip]
                            ELSE member[id]]

\* The second statement, whatever the first has found.  Without a row id is not
\* initialized; when it is negative the call returns 1 and its statement is kept.
LoginUpdate(p) ==
  /\ login[p] # Idle
  /\ \/ FailsBusy(p)
     \/ /\ member' = WithIp(login[p].name, login[p].ip)
        /\ \/ Returns(p, 0) /\ Finalized(p)
           \/ ~ login[p].found /\ Returns(p, 1) /\ Unfinalized(p)
        /\ UNCHANGED <<lastid, who, accounts>>
  /\ login' = [login EXCEPT ![p] = Idle]

dao_logout(p, name, ip) ==
  /\ Ready(p)
  /\ \/ FailsBusy(p)
     \/ /\ member' = WithIp(name, ip)
        /\ Returns(p, 0) /\ Finalized(p)
        /\ UNCHANGED <<lastid, who, accounts>>
  /\ UNCHANGED login

\* mutant: without autoincrement, the memberid after the greatest in use
NextIdReused == IF DOMAIN member = {} THEN 1 ELSE Max(DOMAIN member) + 1
NextId == lastid + 1

\* The index on username refuses a name that is there.
dao_add_member(p, row) ==
  /\ Ready(p)
  /\ \/ FailsBusy(p)
     \/ Ids(row.name) # {} /\ FailsStep(p)
     \/ /\ Ids(row.name) = {} /\ NextId <= MaxId /\ accounts < MaxId
        /\ member' = [id \in DOMAIN member \cup {NextId} |->
                        IF id = NextId THEN row ELSE member[id]]
        /\ who' = [id \in DOMAIN member' |-> IF id = NextId THEN accounts + 1 ELSE who[id]]
        /\ lastid' = NextId /\ accounts' = accounts + 1
        /\ Returns(p, 0) /\ Finalized(p)
  /\ UNCHANGED login

\* mutant: the statement that has found its row is not finalized
dao_get_onemb_kept(p, name) ==
  /\ Ready(p)
  /\ \/ FailsBusy(p)
     \/ Ids(name) = {} /\ FailsStep(p)
     \/ Ids(name) # {} /\ Returns(p, 0) /\ Unfinalized(p) /\ UNCHANGED table
  /\ UNCHANGED login
dao_get_onemb(p, name) ==
  /\ Ready(p)
  /\ \/ FailsBusy(p)
     \/ Ids(name) = {} /\ FailsStep(p)
     \/ Ids(name) # {} /\ Returns(p, 0) /\ Finalized(p) /\ UNCHANGED table
  /\ UNCHANGED login

\* The statement is never finalized.
dao_delete_member(p, name) ==
  /\ Ready(p)
  /\ \/ FailsBusy(p)
     \/ /\ member' = [id \in DOMAIN member \ Ids(name) |-> member[id]]
        /\ who' = [id \in DOMAIN member' |-> who[id]]
        /\ Answers(p, 0, 0, {}) /\ spoilt' = Marked(p) /\ Unfinalized(p)
        /\ UNCHANGED <<lastid, accounts>>
  /\ UNCHANGED login

\* tbl_friend has no column friendid: the statement cannot be prepared.
dao_add_friend(p) == Ready(p) /\ FailsPrepare(p) /\ UNCHANGED login

\* Both members are looked up first, and what dao_get_onemb returns is not looked at;
\* the statement is not SQL.
dao_delete_contact(p, name, friendname) ==
  /\ Ready(p)
  /\ \/ FailsBusy(p)
     \/ (Ids(name) = {} \/ Ids(friendname) = {}) /\ FailsStep(p)
     \/ Ids(name) # {} /\ Ids(friendname) # {} /\ FailsPrepare(p)
  /\ UNCHANGED login

\* The view tbl_friend_list
FriendsOf(name) == {f[2] : f \in {g \in friend : g[1] \in Ids(name) /\ g[2] \in DOMAIN member}}

\* The account that has the name, if there is one.
Account(name) == IF Ids(name) = {} THEN 0 ELSE who[CHOOSE id \in Ids(name) : TRUE]

\* A step that fails is taken for the last row; the array and its items may not be
\* allocated.
dao_get_friends(p, name) ==
  /\ Ready(p)
  /\ \/ /\ Answers(p, 0, Account(name), {who[id] : id \in FriendsOf(name)})
        /\ Finalized(p) /\ UNCHANGED <<table, spoilt>>
     \/ Busy(p) /\ Returns(p, 0) /\ Finalized(p) /\ UNCHANGED table
     \/ FailsPrepare(p)
     \/ FriendsOf(name) # {} /\ FailsStep(p)
  /\ UNCHANGED login

DaoNext ==
  \E p \in Process :
    \/ dao_init(p) \/ dao_deinit(p) \/ LoginUpdate(p) \/ dao_add_friend(p)
    \/ \E name \in Name :
         \/ dao_get_onemb(p, name) \/ dao_delete_member(p, name) \/ dao_get_friends(p, name)
         \/ \E other \in Name : dao_delete_contact(p, name, other)
         \/ \E ip \in Ip :
              \/ dao_logout(p, name, ip)
              \/ \E password \in Password :
                   \/ dao_login(p, name, password, ip)
                   \/ dao_add_member(p, [name |-> name, password |-> password, ip |-> ip])

DaoSpec == DaoInit /\ [][DaoNext]_daoVars

-----------------------------------------------------------------------------
\* A name is one account, and what dao_get_friends shows an account are the friends it
\* was given itself: rows of tbl_friend outlive the members they name, but the name or
\* the memberid of a deleted account does not bring its friends to a new one.
\* (dao_add_member, dao_delete_member, dao_get_friends, schema.sqlite.sql)
OwnFriends ==
  /\ \A name \in Name : Cardinality(Ids(name)) <= 1
  /\ \A p \in Process : \A a \in answer[p].friends : <<answer[p].account, a>> \in Befriended

\* A process leaves a connection open only where a call on that very connection has
\* returned an error or deleted a member: whichever calls others make between its own,
\* no call that succeeds leaves its statement behind, and connections opened later are
\* not touched by what happened on those before. (the dao_ functions)
ClosesClean ==
  \A p \in Process :
    conn[p].left \cup (IF conn[p].kept THEN {conn[p].opened} ELSE {}) \subseteq spoilt[p]
=============================================================================

------------------------------- MODULE Mirror -------------------------------
(***************************************************************************)
(* PostgresDatabaseManager (reamp/storage/postgres.py): the copy of the    *)
(* tenants, sites, assets and observations that the web workers write to   *)
(* one database and never read back.                                       *)
(*                                                                         *)
(* A call of the manager is a sequence of transactions; each commits or    *)
(* fails alone, and a failure is logged and swallowed.  The tables and     *)
(* their keys are those of schema/migrations, from which sync_user departs *)
(* (it names a column that is not there): of a user's synchronisation only *)
(* the organisation it touches remains.                                    *)
(***************************************************************************)
EXTENDS Sequences, Functions

VARIABLE rows  (* the tables: partial functions from the uuid of a name     *)

Empty == [organisation |-> <<>>, portfolio |-> <<>>, site |-> <<>>,
          system |-> <<>>, asset |-> <<>>, observation |-> {}]

(* What a transaction writes: "Org for X" is Placeholder.                   *)
Registered  == <<"registered name">>
Placeholder == <<"Org for">>

Row(table, key, tenant, parent) ==
  [table |-> table, key |-> key, tenant |-> tenant, parent |-> parent]

SyncOrganisation(tenant, name) == <<Row("organisation", tenant, tenant, name)>>

(* The organisation is made sure of first, which overwrites its name.       *)
SyncPortfolio(portfolio, tenant) ==
  SyncOrganisation(tenant, Placeholder) \o <<Row("portfolio", portfolio, tenant, tenant)>>

(* Site and energy system are one transaction.                              *)
SyncSite(site, tenant, portfolio) ==
  SyncPortfolio(portfolio, tenant) \o <<Row("site", site, tenant, portfolio)>>

SyncAsset(asset, tenant, site) == <<Row("asset", asset, tenant, site)>>

SyncUser(tenant) == SyncOrganisation(tenant, Placeholder)

RecordTelemetryObservation(tenant, asset) == <<Row("observation", asset, tenant, asset)>>

Override(table, key, row) ==
  [k \in DOMAIN table \cup {key} |-> IF k = key THEN row ELSE table[k]]

(* INSERT ... ON CONFLICT DO UPDATE: a row that is there keeps its tenant   *)
(* and its parent.                                                          *)
Upsert(table, key, row) ==
  IF key \in DOMAIN table THEN table ELSE Override(table, key, row)

Has(tables, table, key) == key \in DOMAIN tables[table]

(* The foreign keys: without them the database refuses the statement, and   *)
(* a portfolio is selected from no organisation.                            *)
Accepts(tables, tx) ==
  /\ tx.table \in {"portfolio", "site", "asset"} => Has(tables, "organisation", tx.tenant)
  /\ tx.table = "site" => Has(tables, "portfolio", tx.parent)
  /\ tx.table = "asset" => Has(tables, "system", tx.parent)

Link(tx) == [tenant |-> tx.tenant, parent |-> tx.parent]

(* Mutant of Insert: the energy system of a site is left to another call.   *)
InsertAlone(tables, tx) == [tables EXCEPT ![tx.table] = Upsert(@, tx.key, Link(tx))]

(* A site brings its energy system.                                         *)
Insert(tables, tx) ==
  LET system == [tenant |-> tx.tenant, parent |-> tx.key]
      direct == [tables EXCEPT ![tx.table] = Upsert(@, tx.key, Link(tx))]
  IN  IF tx.table = "site" THEN [direct EXCEPT !.system = Upsert(@, tx.key, system)] ELSE direct

(* What a transaction makes of the tables: the name of an organisation is   *)
(* overwritten.                                                             *)
Written(tables, tx) ==
  CASE ~ Accepts(tables, tx)         -> tables
    [] tx.table = "organisation"     -> [tables EXCEPT !.organisation =
                                           Override(@, tx.key, tx.parent)]
    [] tx.table = "observation"      -> [tables EXCEPT !.observation = @ \cup {Link(tx)}]
    [] OTHER                         -> Insert(tables, tx)

Commit(tx) == rows' = Written(rows, tx)
=============================================================================

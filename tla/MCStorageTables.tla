---------------------------- MODULE MCStorageTables ----------------------------
\* StorageTables for TLC, with no calls: a reader walks a table of RocksDb.
EXTENDS StorageTables

NoCalls == rows = {} /\ \A c \in Clients : at[c].op = "req" /\ at[c].key = Min(Keys)

PagesSpec == (TInit /\ NoCalls) /\ [][ReadNext]_tVars
================================================================================

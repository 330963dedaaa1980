------------------------------ MODULE BackupMC ------------------------------
(* A small instance of Backup for TLC: an administrator and a key of hers,  *)
(* restored on an instance with an administrator of the same name.          *)
EXTENDS Backup

Row(table, id, name, parent) == [table |-> table, id |-> id, name |-> name, parent |-> parent]

MCAdmin == Row("users", 2, "admin", None)

MCRows == {Row("users", 1, "admin", None), Row("api_keys", 3, "key", 1)}

=============================================================================

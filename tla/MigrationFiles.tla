--------------------------- MODULE MigrationFiles ---------------------------
(***************************************************************************)
(* The migrations that the application ships (desktop prisma/migrations),  *)
(* as far as they create, renumber, copy or drop something or may be       *)
(* refused by a foreign key.  The PRAGMAs of enforce_song_fk change        *)
(* nothing: foreign_keys cannot be set inside a transaction, and what      *)
(* defer_foreign_keys defers is not violated.                              *)
(***************************************************************************)

create(t, n) == [op |-> "create", table |-> t, name |-> n]

unique(t, n) == [op |-> "unique", table |-> t, name |-> n]

statement(op, t, n) == [op |-> op, table |-> t, name |-> n]

mInit == <<create("Song", ""), create("SongBlock", ""), create("SongBlock", "order_idx")>>

mPlan ==
    <<create("ServicePlan", ""), create("ServiceItem", ""),
      unique("ServicePlan", "date_key"), create("ServiceItem", "order_idx")>>

mOrderUniques ==
    <<create("Song", "year"), statement("number", "ServiceItem", ""),
      unique("SongBlock", "order_key"), unique("ServiceItem", "order_key")>>

mSoftDelete ==
    <<create("Song", "deletedAt"), create("ServicePlan", "deletedAt"),
      create("ServiceItem", "songId"), statement("backfill", "ServiceItem", "songId"),
      create("ServiceItem", "songId_idx")>>

mEnforceSongFk ==
    <<create("new_ServiceItem", ""), create("new_ServiceItem", "songId"),
      statement("copy", "ServiceItem", ""), statement("drop", "ServiceItem", ""),
      statement("rename", "new_ServiceItem", "ServiceItem"),
      create("ServiceItem", "order_idx"), create("ServiceItem", "songId_idx"),
      unique("ServiceItem", "order_key")>>

mNotes == <<create("ServiceItem", "notes")>>

mSecondaryContent == <<create("ServiceItem", "secondaryContent")>>

mBackground ==
    <<create("ServiceItem", "backgroundConfig"), create("ServicePlan", "backgroundConfig")>>

shippedMigrations ==
    <<mInit, mPlan, mOrderUniques, mSoftDelete, mEnforceSongFk, mNotes,
      mSecondaryContent, mBackground>>
=============================================================================

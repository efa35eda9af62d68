--------------------------- MODULE MigrationFiles ---------------------------
(***************************************************************************)
(* The files of migrations/, in the order of their names, as sequences of  *)
(* statements over the objects of the schema.  A column stands here only   *)
(* if some file adds it with ALTER TABLE; the others live with their       *)
(* table.  An index is named by its table and first column.                *)
(***************************************************************************)
(* CREATE TABLE IF NOT EXISTS, with the columns that a file also adds.     *)
TableWith(t, columns) ==
    [does |-> "create", object |-> <<"table", t, "">>, needs |-> {},
     columns |-> {<<"column", t, c>> : c \in columns}]

Table(t) == TableWith(t, {})

(* CREATE INDEX or CREATE TRIGGER IF NOT EXISTS.                           *)
On(what, t, name) ==
    [does |-> "create", object |-> <<what, t, name>>,
     needs |-> {<<"table", t, "">>}, columns |-> {}]

Index(t, name) == On("index", t, name)
Trigger(t, name) == On("trigger", t, name)

(* ALTER TABLE ... ADD COLUMN. *)
Column(t, c) ==
    [does |-> "add", object |-> <<"column", t, c>>,
     needs |-> {<<"table", t, "">>}, columns |-> {}]

(* DROP INDEX IF EXISTS. *)
Dropped(t, name) ==
    [does |-> "drop", object |-> <<"index", t, name>>, needs |-> {},
     columns |-> {}]

-----------------------------------------------------------------------------
AccessLogs ==
    <<TableWith("access_logs", {"photo"}),
      Index("access_logs", "document"), Index("access_logs", "unit"),
      Index("access_logs", "entry_at"), Index("access_logs", "sync_status"),
      Index("access_logs", "visit_status")>>

Residents ==
    <<Table("residents"), Index("residents", "sync_status"),
      Index("residents", "updated_at")>>

KeyRecords ==
    <<Table("key_records"), Index("key_records", "date"),
      Index("key_records", "unit"), Index("key_records", "status"),
      Index("key_records", "sync_status")>>

AccessLogPhoto == <<Column("access_logs", "photo")>>

DiaristaEntries ==
    <<Table("diarista_entries"), Index("diarista_entries", "date"),
      Index("diarista_entries", "rg"), Index("diarista_entries", "unit")>>

ScheduledServices ==
    <<Table("scheduled_services"), Index("scheduled_services", "date"),
      Index("scheduled_services", "document"),
      Index("scheduled_services", "status")>>

ShoppingDeliveries ==
    <<TableWith("shopping_deliveries", {"recipient"}),
      Index("shopping_deliveries", "unit"),
      Index("shopping_deliveries", "status"),
      Index("shopping_deliveries", "received_at"),
      Index("shopping_deliveries", "sync_status")>>

ResidentTenantPhoto == <<Column("residents", "tenant_photo")>>

CommonAreaReservations ==
    <<Table("common_area_reservations"),
      Index("common_area_reservations", "date"),
      Index("common_area_reservations", "area"),
      Index("common_area_reservations", "status")>>

AccessLogExternalId == <<Index("access_logs", "external_id")>>

ResidentContactFields ==
    <<Column("residents", "email"), Column("residents", "tenant_email"),
      Column("residents", "tenant_phone")>>

UniqueActiveReservation ==
    <<Dropped("common_area_reservations", "unique_active_date"),
      Index("common_area_reservations", "unique_active_area_date"),
      Index("common_area_reservations", "unique_active_unit_date")>>

ShoppingRecipient == <<Column("shopping_deliveries", "recipient")>>

NoDuplicateActiveVisits ==
    <<Trigger("access_logs", "insert"), Trigger("access_logs", "update")>>

ReservationSignatures ==
    <<Table("reservation_signatures"),
      Index("reservation_signatures", "reservation")>>

DeliveryPhotoSessions ==
    <<Table("delivery_photo_sessions"),
      Index("delivery_photo_sessions", "expires")>>

DeliveryWithdrawalSignatures ==
    <<Table("delivery_withdrawal_signatures"),
      Index("delivery_withdrawal_signatures", "delivery")>>

ReservationGuests ==
    <<Table("reservation_guests"),
      Index("reservation_guests", "reservation")>>

ResidentVehicles == <<Table("resident_vehicles")>>

AuthorizedRecipients == <<Column("residents", "authorized_recipients")>>

CleaningInventory ==
    <<Table("inventory_requests"), Table("inventory_products"),
      Table("inventory_purchases"), Table("inventory_movements"),
      Index("inventory_movements", "product"),
      Index("inventory_movements", "purchase")>>

ProtectedChanges ==
    <<Table("inventory_product_changes"),
      Column("inventory_products", "deleted_at")>>

ShoppingDeletions == <<Table("shopping_delivery_deletions")>>

(* Sorted by name. *)
SortedFiles ==
    <<AccessLogs, Residents, KeyRecords, AccessLogPhoto, DiaristaEntries,
      ScheduledServices, ShoppingDeliveries, ResidentTenantPhoto,
      CommonAreaReservations, AccessLogExternalId, ResidentContactFields,
      UniqueActiveReservation, ShoppingRecipient, NoDuplicateActiveVisits,
      ReservationSignatures, DeliveryPhotoSessions,
      DeliveryWithdrawalSignatures, ReservationGuests, ResidentVehicles,
      AuthorizedRecipients, CleaningInventory, ProtectedChanges,
      ShoppingDeletions>>
=============================================================================

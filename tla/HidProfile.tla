----------------------------- MODULE HidProfile -----------------------------
(***************************************************************************)
(* The HID profile of labs 4.2 and 4.3: it registers the device with the   *)
(* stack, builds the attribute tables, keeps a control block for the       *)
(* connection and finds the attribute a report is sent through.            *)
(***************************************************************************)
EXTENDS BleStack

VARIABLES
  profile_if,   \* heart_rate_profile_tab[PROFILE_APP_IDX].gatts_if
  enabled,      \* hidd_le_env.enabled
  hidd_cb,      \* hidd_le_env.hidd_cb is set
  gatt_if,      \* hidd_le_env.gatt_if
  hidd_clcb,    \* hidd_le_env.hidd_clcb: the control blocks
  att_tbl,      \* hidd_le_env.hidd_inst.att_tbl: the attributes' handles
  incl_svc,     \* the service that the HID service includes
  hid_rpt_tbl   \* hid_dev_rpt_tbl and its length: the registered reports

profileVars == <<profile_if, enabled, hidd_cb, gatt_if, hidd_clcb, att_tbl, incl_svc, hid_rpt_tbl>>

HID_MAX_APPS == 1

NoBlock == [in_use |-> FALSE, conn_id |-> 0, remote_bda |-> NoHost]

Block == [in_use : BOOLEAN, conn_id : ConnId \cup {0}, remote_bda : Host \cup {NoHost}]

\* The attributes that carry reports.  A handle is named after its attribute.
ReportAttribute ==
  {"MOUSE_IN", "KEY_IN", "LED_OUT", "CC_IN", "BOOT_KB_IN", "BOOT_KB_OUT", "BOOT_MOUSE_IN",
   "REPORT"}

NoHandle == "0"
NoHandles == [a \in ReportAttribute |-> NoHandle]
Handles == [a \in ReportAttribute |-> a]

\* Id, type and protocol mode of each report, in the order of the table; its
\* ninth place is never filled.
HidReport(id, type, mode, handle) == [id |-> id, type |-> type, mode |-> mode, handle |-> handle]

hid_add_id_tbl(tbl) ==
  << HidReport(1, "input", "report", tbl["MOUSE_IN"]),
     HidReport(2, "input", "report", tbl["KEY_IN"]),
     HidReport(3, "input", "report", tbl["CC_IN"]),
     HidReport(2, "output", "report", tbl["LED_OUT"]),
     HidReport(2, "input", "boot", tbl["BOOT_KB_IN"]),
     HidReport(2, "output", "boot", tbl["BOOT_KB_OUT"]),
     HidReport(1, "input", "boot", tbl["BOOT_MOUSE_IN"]),
     HidReport(0, "feature", "report", tbl["REPORT"]),
     HidReport(0, "none", "boot", NoHandle) >>

hidProtocolMode == "report"

\* The entries that match; the first of them is sent through.
hid_dev_rpt_by_id(id, type) ==
  {i \in DOMAIN hid_rpt_tbl : /\ hid_rpt_tbl[i].id = id /\ hid_rpt_tbl[i].type = type
                              /\ hid_rpt_tbl[i].mode = hidProtocolMode}

ProfileTypeOK ==
  /\ profile_if \in Application \cup {ESP_GATT_IF_NONE}
  /\ enabled \in BOOLEAN /\ hidd_cb \in BOOLEAN
  /\ gatt_if \in Application \cup {ESP_GATT_IF_NONE}
  /\ hidd_clcb \in [1 .. HID_MAX_APPS -> Block]
  /\ att_tbl \in {NoHandles, Handles}
  /\ incl_svc \in Application \cup {ESP_GATT_IF_NONE}
  /\ hid_rpt_tbl \in {<<>>} \cup {hid_add_id_tbl(tbl) : tbl \in {NoHandles, Handles}}

ProfileInit ==
  /\ profile_if = ESP_GATT_IF_NONE
  /\ enabled = FALSE /\ hidd_cb = FALSE
  /\ gatt_if = ESP_GATT_IF_NONE
  /\ hidd_clcb = [i \in 1 .. HID_MAX_APPS |-> NoBlock]
  /\ att_tbl = NoHandles
  /\ incl_svc = ESP_GATT_IF_NONE
  /\ hid_rpt_tbl = <<>>

-----------------------------------------------------------------------------
(* What the program calls.                                                 *)

\* Initialising twice is refused.
esp_hidd_profile_init ==
  /\ ~enabled
  /\ enabled' = TRUE
  /\ hidd_cb' = FALSE
  /\ gatt_if' = ESP_GATT_IF_NONE
  /\ hidd_clcb' = [i \in 1 .. HID_MAX_APPS |-> NoBlock]
  /\ att_tbl' = NoHandles
  /\ UNCHANGED <<profile_if, incl_svc, hid_rpt_tbl>>

\* The callback is in place before the first event can come.
SetCallback ==
  /\ hidd_cb' = TRUE
  /\ UNCHANGED <<profile_if, enabled, gatt_if, hidd_clcb, att_tbl, incl_svc, hid_rpt_tbl>>

-----------------------------------------------------------------------------
(* What the stack calls: gatts_event_handler, and esp_hidd_prf_cb_hdl for  *)
(* the events of the profile's interface.                                  *)

\* The profile has one entry, which the last registered application takes.
gatts_event_handler(e) ==
  profile_if' = IF e.type = "REG" /\ e.ok THEN e.gatts_if ELSE profile_if

\* A failed registration goes no further.
Dispatched(e) ==
  /\ e.type = "REG" => e.ok
  /\ e.gatts_if \in {ESP_GATT_IF_NONE, profile_if'}

\* The battery service comes first, because the HID service includes it.
RegisterEvent(e) ==
  /\ gatt_if' = IF e.app = HIDD_APP_ID THEN e.gatts_if ELSE gatt_if
  /\ UNCHANGED <<enabled, hidd_cb, hidd_clcb, att_tbl, incl_svc, hid_rpt_tbl>>

\* Mutant of hidd_le_create_service: both tables are asked for at once.
CreatesBoth(e) == IF e.app = HIDD_APP_ID /\ hidd_cb THEN Application ELSE {}

hidd_le_create_service(e) == IF e.app = HIDD_APP_ID /\ hidd_cb THEN {BATTRAY_APP_ID} ELSE {}

\* A block is found for the connection if one is free.
hidd_clcb_alloc(e) ==
  LET free == {i \in 1 .. HID_MAX_APPS : ~hidd_clcb[i].in_use}
      block == [in_use |-> TRUE, conn_id |-> e.conn_id, remote_bda |-> e.host]
  IN  hidd_clcb' = IF free = {} THEN hidd_clcb
                   ELSE [hidd_clcb EXCEPT ![CHOOSE i \in free : \A j \in free : i <= j] = block]

\* The first block is cleared, whichever connection ended.
hidd_clcb_dealloc(e) == hidd_clcb' = [hidd_clcb EXCEPT ![1] = NoBlock]

ConnectEvent(e) ==
  /\ hidd_clcb_alloc(e)
  /\ UNCHANGED <<enabled, hidd_cb, gatt_if, att_tbl, incl_svc, hid_rpt_tbl>>

DisconnectEvent(e) ==
  /\ hidd_clcb_dealloc(e)
  /\ UNCHANGED <<enabled, hidd_cb, gatt_if, att_tbl, incl_svc, hid_rpt_tbl>>

\* The handles are known, and the reports can be sent, once the HID table is
\* there.  Any table's service is started.
TableEvent(e) ==
  /\ incl_svc' = IF e.ok /\ e.app = BATTRAY_APP_ID THEN BATTRAY_APP_ID ELSE incl_svc
  /\ IF e.ok /\ e.app = HIDD_APP_ID
       THEN /\ att_tbl' = Handles
            /\ hid_rpt_tbl' = hid_add_id_tbl(att_tbl')
       ELSE UNCHANGED <<att_tbl, hid_rpt_tbl>>
  /\ UNCHANGED <<enabled, hidd_cb, gatt_if, hidd_clcb>>

NextTable(e) == IF e.ok /\ e.app = BATTRAY_APP_ID THEN {HIDD_APP_ID} ELSE {}

\* A table that was not created has no handle to start.
Started(e) == IF e.ok THEN {e.app} ELSE {}
=============================================================================

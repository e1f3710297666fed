------------------------------ MODULE ToolMapping ------------------------------
(***************************************************************************)
(* The table from tool, action, target and value to the intent. The agent  *)
(* (tools/mapping/mapper.py) and the guardrail (service/tool_map.py) each  *)
(* hold a copy of it, which a test compares row by row; the guardrail's    *)
(* leaves out the candidate capabilities. One capability stands for all of *)
(* them, and its free text for any.                                        *)
(***************************************************************************)
EXTENDS Sequences, TLC

Each(action, intents) ==
    [k \in {action} \X DOMAIN intents |-> intents[k[2]]]
Directions == {"forward", "backward", "up", "down"}
Adjusting(target, intent) ==
    [k \in {"adjust"} \X {target} \X Directions |-> intent]

Features == {"adaptive_cruise_control", "auto_park", "auto_vehicle_hold",
             "automatic_high_beam", "camp_mode", "creep_mode",
             "electronic_parking_brake", "electronic_stability_control",
             "head_up_display", "highway_drive_assist", "lane_keeping_assist",
             "pet_mode", "traction_control", "valet_mode"}

MappingRules ==
    [control_access |->
        Each("open", [driver_door |-> "open_door", trunk |-> "open_trunk",
                      charge_port |-> "open_chargeport",
                      bonnet |-> "OPEN_BONNET"])
        @@ Each("lock", [all_doors |-> "lock_doors"])
        @@ Each("unlock", [all_doors |-> "unlock_doors"]),
     control_light |->
        Each("turn_on", [high_beam |-> "turnon_highbeam",
                         low_beam |-> "turnon_lowbeam",
                         left_turn_signal |-> "turnon_turnsignal_left",
                         right_turn_signal |-> "turnon_turnsignal_right",
                         hazard_light |-> "turnon_hazardlight",
                         cornering_light |-> "turnon_corneringlight",
                         interior_light |-> "turnon_interiorlight"])
        @@ Each("turn_off", [high_beam |-> "turnoff_highbeam",
                             low_beam |-> "turnoff_lowbeam",
                             left_turn_signal |-> "turnoff_turnsignal_left",
                             right_turn_signal |-> "turnoff_turnsignal_right",
                             hazard_light |-> "turnoff_hazardlight"])
        @@ Each("activate", [automatic_high_beam |-> "activate_ahb"]),
     control_cabin |->
        Adjusting("steering_wheel", "ad_steeringwheel")
        @@ Adjusting("driver_seat_angle", "ad_driverseat_angle")
        @@ Adjusting("driver_seat_position", "ad_driverseat_pos")
        @@ <<"set", "wiper", "max">> :> "AD_WIPER_MAX"
        @@ Each("fold", [back_seat |-> "fold_backseat",
                         mirrors |-> "fold_mirrors"])
        @@ Each("open", [sunroof |-> "open_sunroof",
                         driver_window |-> "open_window",
                         front_passenger_window |-> "open_window",
                         rear_left_window |-> "open_window",
                         rear_right_window |-> "open_window"])
        @@ Each("restore",
                [driver_seat_position |-> "restore_driverseat_pos"]),
     set_drive_mode |->
        [k \in {"set"} \X {"drive_mode"} \X {"eco", "normal", "sport"} |->
            "switch_drivemode_" \o k[3]],
     control_transmission |->
        <<"shift", "gear", "park">> :> "shift_gear_park"
        @@ <<"shift", "gear", "reverse">> :> "SHIFT_GEAR_REVERSE"
        @@ Each("activate", [electronic_parking_brake |-> "activate_epb"]),
     control_driver_assistance |->
        Each("activate", [auto_park |-> "activate_autopark",
                          adaptive_cruise_control |-> "activate_aac",
                          highway_drive_assist |-> "activate_hda",
                          traction_control |-> "activate_tcs",
                          auto_vehicle_hold |-> "activate_avh",
                          lane_keeping_assist |-> "turnon_LKA"])
        @@ Each("deactivate",
                [lane_keeping_assist |-> "turnoff_LKA",
                 electronic_stability_control |-> "deactivate_esc"]),
     control_special_mode |->
        Each("activate", [creep_mode |-> "activate_creepmode",
                          camp_mode |-> "activate_campmode",
                          pet_mode |-> "activate_petmode",
                          valet_mode |-> "activate_valetmode"]),
     control_ui |->
        Each("open", [notification_center |-> "open_noti_center"])
        @@ Each("deactivate", [head_up_display |-> "deactivate_hud"]),
     query_vehicle_state |->
        Each("get", [current_speed |-> "get_current_speed",
                     battery_percentage |-> "get_battery_pct",
                     gear |-> "get_gear",
                     door_lock_status |-> "get_door_lock_status",
                     auto_vehicle_hold_status |-> "get_avh_status"]),
     explain_vehicle_feature |->
        [k \in {"explain"} \X Features |-> "explain_feature"],
     control_vehicle_capability |->
        <<"set", "set_navigation_destination", "*">>
            :> "set_navigation_destination"]

MappingKey(args) ==
    IF "value" \in DOMAIN args THEN <<args.action, args.target, args.value>>
                               ELSE <<args.action, args.target>>
==============================================================================

-------------------------- MODULE RuntimeCommands ---------------------------
(***************************************************************************)
(* The commands of the desktop host: what the client of the window         *)
(* (NativeRuntime, web/src/runtime.ts) sends with each and which decoder   *)
(* reads its answer, and what the host (src-tauri) takes out of it and     *)
(* answers with.  The arguments of a request stand beside "request".       *)
(***************************************************************************)

\* Two tables in one, the first before the second: @@ of TLC, which provers take
\* for an unknown operator.
f ++ g == [x \in DOMAIN f \cup DOMAIN g |-> IF x \in DOMAIN f THEN f[x] ELSE g[x]]

Call(sends, reads) == [sends |-> sends, reads |-> reads]
Command(needs, answers) == [needs |-> needs, answers |-> answers]

(* ------------------- what the window sends and reads ------------------- *)

SetupCalls ==
    [studio_status |-> Call({}, "status"),
     studio_configure |-> Call({"request", "workspace", "mere_run_command", "workflow_tools_command",
                                "onboarding_complete"}, "status"),
     studio_discover_tools |-> Call({}, "status"),
     studio_open_runtime_downloads |-> Call({}, "opened"),
     studio_plugins |-> Call({}, "command"),
     studio_setup_plugin |-> Call({"request", "id", "confirmed"}, "command"),
     studio_verify_local |-> Call({}, "verified"),
     studio_catalog |-> Call({}, "catalog"),
     studio_executors |-> Call({}, "command"),
     studio_models |-> Call({}, "command"),
     studio_executor_probe |-> Call({"text"}, "command")]

ProjectCalls ==
    [studio_projects |-> Call({}, "projects"),
     studio_load_project |-> Call({"value"}, "project"),
     studio_save_project |-> Call({"request", "path", "graph", "inputs", "sidecar"}, "saved"),
     studio_export_project |-> Call({"request", "graph", "inputs", "sidecar"}, "package"),
     studio_import_project |-> Call({"request", "contract_version", "graph"}, "imported"),
     studio_check |-> Call({"request", "mode", "graph", "inputs", "executor"}, "command"),
     studio_compare_preflight |-> Call({"request", "graph", "inputs", "executors"}, "comparisons"),
     studio_compile_program |-> Call({"request", "program"}, "compiled")]

RunCalls ==
    [studio_start_run |-> Call({"request", "graph", "inputs", "executor"}, "run"),
     studio_list_runs |-> Call({}, "runs"),
     studio_inspect_run |-> Call({"value"}, "run"),
     studio_cancel_run |-> Call({"value"}, "run"),
     studio_fetch_run |-> Call({"request", "id", "all_artifacts", "artifact_names"}, "run"),
     studio_retry_run |-> Call({"value"}, "run"),
     studio_resume_run |-> Call({"value"}, "run"),
     studio_artifact |-> Call({"id", "path"}, "bytes")]

AssetCalls ==
    [studio_import_assets |-> Call({"request", "paths"}, "assets"),
     studio_import_run_artifact |-> Call({"request", "id", "path"}, "copied"),
     studio_input_asset |-> Call({"path"}, "bytes"),
     studio_templates |-> Call({}, "templates"),
     studio_load_template |-> Call({"value"}, "loaded"),
     studio_publish_template |-> Call({"request", "graph", "inputs", "template_id", "title",
                                       "description", "tags"}, "published"),
     studio_inspect_comfy |-> Call({"request", "workflow"}, "command"),
     studio_import_comfy |-> Call({"request", "workflow", "model"}, "loaded"),
     studio_model_preflight |-> Call({"request", "target"}, "command"),
     studio_model_pull |-> Call({"request", "target", "accept_license", "allow_unsupported", "force"},
                                "pull"),
     studio_inspect_model_pull |-> Call({"value"}, "pull")]

NativeRuntime == SetupCalls ++ ProjectCalls ++ RunCalls ++ AssetCalls

(* ------------------ what the host takes and answers -------------------- *)

\* A command takes nothing, one text named value, or one request; what it
\* cannot do without is beside it.
value_command ==
    [studio_status |-> Command({}, "status"),
     studio_configure |-> Command({"request", "workspace", "mere_run_command"}, "status"),
     studio_discover_tools |-> Command({}, "status"),
     studio_open_runtime_downloads |-> Command({}, "opened"),
     studio_plugins |-> Command({}, "command"),
     studio_setup_plugin |-> Command({"request", "id"}, "command"),
     studio_verify_local |-> Command({}, "verified"),
     studio_catalog |-> Command({}, "catalog"),
     studio_executors |-> Command({}, "command"),
     studio_models |-> Command({}, "command"),
     studio_executor_probe |-> Command({"value"}, "command"),
     studio_projects |-> Command({}, "projects"),
     studio_load_project |-> Command({"value"}, "project"),
     studio_save_project |-> Command({"request", "path", "graph"}, "saved"),
     studio_export_project |-> Command({"request", "graph"}, "package"),
     studio_import_project |-> Command({"request", "contract_version", "graph"}, "imported"),
     studio_check |-> Command({"request", "mode", "graph"}, "command"),
     studio_compare_preflight |-> Command({"request", "graph", "executors"}, "comparisons"),
     studio_compile_program |-> Command({"request", "program"}, "compiled"),
     studio_list_runs |-> Command({}, "runs"),
     studio_artifact |-> Command({"id", "path"}, "bytes"),
     studio_import_assets |-> Command({"request", "paths"}, "assets"),
     studio_import_run_artifact |-> Command({"request", "id", "path"}, "copied"),
     studio_input_asset |-> Command({"path"}, "bytes"),
     studio_templates |-> Command({}, "templates"),
     studio_load_template |-> Command({"value"}, "loaded"),
     studio_publish_template |-> Command({"request", "graph", "template_id", "title", "description"},
                                         "published"),
     studio_inspect_comfy |-> Command({"request", "workflow"}, "command"),
     studio_import_comfy |-> Command({"request", "workflow", "model"}, "loaded"),
     studio_model_preflight |-> Command({"request", "target"}, "command"),
     studio_model_pull |-> Command({"request", "target"}, "pull"),
     studio_inspect_model_pull |-> Command({"value"}, "pull"),
     studio_start_run |-> Command({"request", "graph"}, "run"),
     studio_fetch_run |-> Command({"request", "id"}, "run")]
    ++ [command \in {"studio_inspect_run", "studio_cancel_run", "studio_retry_run", "studio_resume_run"}
            |-> Command({"value"}, "run")]

\* What the argument names of a command do not agree on is refused before the
\* command runs.
Accepted(command) == value_command[command].needs \subseteq NativeRuntime[command].sends
=============================================================================

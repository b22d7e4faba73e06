SPECIFICATION Spec
CONSTANTS
    Wired = {"wired"}
    OtherEvents = {"other"}
    Agents = {"antigravity", "claude", "codex", "copilot", "cursor", "gemini",
              "hermes", "opencode", "openhands", "vscode"}
    Users <- SomeUsers
    MaxOps = 3
    MaxFaults = 1
INVARIANTS SettingsRecoverable OthersKept HookOnce ReportIsTrue
CHECK_DEADLOCK FALSE

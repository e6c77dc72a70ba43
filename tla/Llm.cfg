SPECIFICATION LlmSpec
CONSTANTS
    k1 = k1
    k2 = k2
    Thread = {k1, k2}
    Chain <- MCChain
    Local = "ollama"
    Rotating = "openrouter"
    Escalating = "gemini"
    Reserved = {"gemini"}
    Model = {1, 2}
    Dead = {1}
    DailyLimit <- MCDailyLimit
    Margin = 0
    PerMinute <- MCPerMinute
    Minute = 1
    Cooldown = 1
    MaxEscalation = 2
    LongCooldown = 1
    Generations = 2
    MaxUnseen = 1
SYMMETRY Callers
INVARIANTS
    ServedWithinBudget

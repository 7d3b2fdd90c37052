SPECIFICATION Spec
CONSTANTS
    World = 2
    GroupSize <- MCGroupSize
    Prompts = 2
    N = 2
    Lengths = {1, 2, 3}
    ResponseLength = 3
    PromptLength = 1
    MaxTokenLen <- MCMaxTokenLen
    MiniBatchSize = 1
    Epochs = 1
    Runs <- MCRuns
    Text = "text"
    None = None
INVARIANTS
    TypeOK
    OwnResults
    GeneratedExactly
    SamePolicyEvaluated
    Balanced
    InStep
